---- MODULE Spec2Model ----
(***************************************************************************)
(* Velvet Vogue storefront: the checkout transaction (app.py api_checkout) *)
(* over the per-size inventory ledger (models.py Product), and the durable *)
(* e-mail retry queue (email_service.py EmailService, models.py            *)
(* FailedEmail).                                                           *)
(*                                                                         *)
(* Time is counted in units of five minutes, the granularity of every      *)
(* delay the code computes (5, 5 * 2^n and 5 * 5^n minutes), and from the  *)
(* present instant: the code reads a row's next_attempt only against       *)
(* datetime.utcnow(), so a row keeps next_attempt - utcnow(), and 0 once   *)
(* that instant has passed.                                                *)
(***************************************************************************)
EXTENDS Integers, Sequences, FiniteSets, TLC

\* ------------------------------------------------------------------ bounds

\* Most orders committed in one behaviour.
MaxOrders == 2
\* Most rows inserted into the failed_emails table in one behaviour.
MaxRows == 2
\* Largest attempts counter the enqueue path is driven to.
MaxEnqueued == 5

\* --------------------------------------------------------- program constants

\* FailedEmail.max_attempts column default.
DefaultMaxAttempts == 5
\* First retry delay of a new queue row: timedelta(minutes=5), one unit.
InitialDelay == 1

\* ------------------------------------------------------------------- state

VARIABLES
    products,       \* products table: id -> [sizes, stock, sold_count, price]
    orders,         \* orders table, in id order (Order.id = position)
    order_items,    \* order_items table: sequence of OrderItem rows
    cart,           \* session['cart']: cart key -> entry
    failed_emails,  \* failed_emails table: set of FailedEmail rows
    email_seq,      \* last id handed out by failed_emails' id sequence
    resp,           \* the answer of the request the last step handled
    smtp_log,       \* transport calls (_smtp_send) made by that request
    sweeps,         \* where each caller of retry_failed_emails stands
    sessions,       \* where each checkout request in flight stands
    sends           \* row id -> transport calls made for the row's message

vars == <<products, orders, order_items, cart, failed_emails, email_seq,
          resp, smtp_log, sweeps, sessions, sends>>

\* datetime.utcnow(): the instant times are measured from.
now == 0

\* --------------------------------------------------------------- inventory

SizeLabels == {"S", "M"}

\* sum(sizes.values())
RECURSIVE SumValues(_)
SumValues(f) ==
    IF DOMAIN f = {} THEN 0
    ELSE LET k == CHOOSE x \in DOMAIN f : TRUE
         IN f[k] + SumValues([x \in DOMAIN f \ {k} |-> f[x]])

\* Product.calculate_total_stock
calculate_total_stock(product) == SumValues(product.sizes)

\* A mutated availability check: the comparison against the size's count is
\* dropped, only the presence of the size is tested.
check_size_availability_presence_only(product, size, quantity) ==
    size \in DOMAIN product.sizes

\* Product.check_size_availability: the ok component of its answer.
check_size_availability(product, size, quantity) ==
    IF size \notin DOMAIN product.sizes THEN FALSE
    ELSE product.sizes[size] >= quantity

\* Product.check_size_availability: the message component of its answer
\* (the count in "Only N available" is left out).
size_availability_message(product, size, quantity) ==
    IF size \notin DOMAIN product.sizes THEN "Size not available"
    ELSE IF product.sizes[size] >= quantity THEN "Available"
    ELSE "Only N available"

\* The catalogue the shop starts with, as add_product creates products:
\* only sizes with a positive quantity, stock their sum, nothing sold yet.
NewProduct(sizes, price) ==
    [sizes |-> sizes, stock |-> SumValues(sizes), sold_count |-> 0,
     price |-> price]

InitProducts ==
    (1 :> NewProduct("M" :> 3, 10)) @@ (2 :> NewProduct("S" :> 1, 20))

\* ---------------------------------------------------------------- checkout

RequiredFields ==
    <<"customer", "items", "subtotal", "delivery_fee", "total", "payment_method">>

CustomerEmail == "customer@example.com"
AdminEmail == "blessedsubarashi22@gmail.com"

\* The database rows one request can see and change.
DbState == [products |-> products, orders |-> orders, order_items |-> order_items]

\* A mutated teardown: the session's pending writes are committed instead of
\* being discarded.
shutdown_session_commits(committed, pending) == pending

\* shutdown_session: db.session.remove() ends the request's session; writes
\* that were flushed or pending but never committed are discarded, so the
\* database keeps its committed rows.
shutdown_session(committed, pending) == committed

\* A mutated decrement: sold_count counts line items instead of units.
DecrementStock_counts_items(product, size, quantity) ==
    LET sizes == [product.sizes EXCEPT ![size] = @ - quantity]
    IN [product EXCEPT !.sizes = sizes,
                       !.stock = SumValues(sizes),
                       !.sold_count = @ + 1]

\* The decrement of one paid line item (api_checkout, "Only deduct stock if
\* payment is confirmed").
DecrementStock(product, size, quantity) ==
    LET sizes == [product.sizes EXCEPT ![size] = @ - quantity]
    IN [product EXCEPT !.sizes = sizes,
                       !.stock = SumValues(sizes),
                       !.sold_count = @ + quantity]

\* A mutated payment test: every status the request states counts as paid.
payment_confirmed_if_stated(data) == data.payment_status # "absent"

\* api_checkout: data.get('payment_status') == 'paid'
payment_confirmed(data) == data.payment_status = "paid"

\* The loop of api_checkout over data['items'], run on the session's view
\* `work` of the database, from line item i on. It stops at the first line
\* item that fails, leaving the reason in work.error.
RECURSIVE checkout_items(_, _, _, _)
checkout_items(data, order_id, i, work) ==
    IF i > Len(data.items) THEN work
    ELSE
        LET item == data.items[i]
            product_id == item.product_id
        IN  IF product_id = 0
            THEN [work EXCEPT !.error = "Item missing product_id"]
            ELSE IF product_id \notin DOMAIN work.products
            THEN [work EXCEPT !.error = "Product not found"]
            ELSE IF ~check_size_availability(work.products[product_id],
                                             item.size, item.quantity)
            THEN [work EXCEPT !.error =
                     size_availability_message(work.products[product_id],
                                               item.size, item.quantity)]
            ELSE
                LET order_item == [order_id |-> order_id,
                                   product_id |-> product_id,
                                   size |-> item.size,
                                   quantity |-> item.quantity,
                                   price |-> item.price]
                    added == [work EXCEPT
                                 !.order_items = Append(@, order_item)]
                    paid == IF payment_confirmed(data)
                            THEN [added EXCEPT !.products[product_id] =
                                     DecrementStock(@, item.size, item.quantity)]
                            ELSE added
                IN  checkout_items(data, order_id, i + 1, paid)

\* ------------------------------------------------------------- retry queue

RECURSIVE Pow(_, _)
Pow(b, n) == IF n <= 0 THEN 1 ELSE b * Pow(b, n - 1)

\* What _smtp_send answers: "ok" for (True, ...), otherwise the failure it
\* caught and turned into (False, error_msg).
SmtpFailures == {"auth", "timeout"}
SmtpOutcomes == {"ok"} \cup SmtpFailures

\* The row id standing for None (no row).
NoRow == 0

\* The filter of _queue_email's lookup: rows of the same recipient, type and
\* order that are pending.
PendingFor(rows, to_email, email_type, order_id) ==
    {e \in rows : /\ e.recipient = to_email
                  /\ e.email_type = email_type
                  /\ e.order_id = order_id
                  /\ e.status = "pending"}

\* What .first() may answer on that filter: None when nothing matches, any
\* matching row otherwise (the query states no order).
FirstResults(matching) ==
    IF matching = {} THEN {NoRow} ELSE {e.id : e \in matching}

Row(rows, id) == CHOOSE e \in rows : e.id = id

\* A mutated enqueue delay: the delay no longer grows with the counter.
EnqueueDelay_flat(attempts) == 2

\* Delay written by _queue_email's update path: 5 * 2^attempts minutes.
EnqueueDelay(attempts) == Pow(2, attempts)

\* A mutated retry delay: the exponent is attempts instead of attempts - 1.
RetryDelay_shifted(attempts) == Pow(5, attempts)

\* Delay written by retry_failed_emails: 5 * 5^(attempts - 1) minutes.
RetryDelay(attempts) == Pow(5, attempts - 1)

\* A mutated insert: the new row is due at once and counts no attempt.
NewFailedEmail_due_now(id, to_email, email_type, order_id, error_msg, t) ==
    [id |-> id, email_type |-> email_type, recipient |-> to_email,
     order_id |-> order_id, attempts |-> 0,
     max_attempts |-> DefaultMaxAttempts, status |-> "pending",
     next_attempt |-> t, error_message |-> error_msg]

\* The row _queue_email inserts when no pending row exists ("Create new
\* failed email record").
NewFailedEmail(id, to_email, email_type, order_id, error_msg, t) ==
    [id |-> id, email_type |-> email_type, recipient |-> to_email,
     order_id |-> order_id, attempts |-> 1,
     max_attempts |-> DefaultMaxAttempts, status |-> "pending",
     next_attempt |-> t + InitialDelay, error_message |-> error_msg]

\* A mutated enqueue: a row is inserted whether or not one is pending.
queue_email_always_inserts(q, to_email, email_type, order_id, error_msg, t, existing) ==
    [rows |-> q.rows \cup
              {[id |-> q.seq + 1, email_type |-> email_type,
                recipient |-> to_email, order_id |-> order_id,
                attempts |-> 1, max_attempts |-> DefaultMaxAttempts,
                status |-> "pending", next_attempt |-> t + InitialDelay,
                error_message |-> error_msg]},
     seq |-> q.seq + 1]

\* EmailService._queue_email on the queue q = [rows, seq] at time t, where
\* `existing` is the id .first() answered (NoRow for None).
queue_email(q, to_email, email_type, order_id, error_msg, t, existing) ==
    IF existing # NoRow
    THEN LET old == Row(q.rows, existing)
             upd == [old EXCEPT
                        !.attempts = @ + 1,
                        !.error_message = error_msg,
                        !.next_attempt = t + EnqueueDelay(old.attempts + 1)]
         IN [q EXCEPT !.rows = (@ \ {old}) \cup {upd}]
    ELSE [rows |-> q.rows \cup
                   {NewFailedEmail(q.seq + 1, to_email, email_type, order_id,
                                   error_msg, t)},
          seq |-> q.seq + 1]

\* A mutated send: a transport failure is reported but not queued.
send_email_drops(q, to_email, email_type, order_id, outcome, t, existing) == q

\* EmailService.send_email: the queue after one immediate send whose
\* transport call answered `outcome`.
send_email(q, to_email, email_type, order_id, outcome, t, existing) ==
    IF outcome = "ok" THEN q
    ELSE queue_email(q, to_email, email_type, order_id, outcome, t, existing)

Queue == [rows |-> failed_emails, seq |-> email_seq]

\* ------------------------------------------------------- checkout handler

NoData == [absent |-> {}, items |-> <<>>, payment_status |-> "absent",
           payment_method |-> ""]

Answer(op, success, error, at, data) ==
    [op |-> op, success |-> success, error |-> error, at |-> at, data |-> data]

\* No request has been handled.
NoAnswer == Answer("", TRUE, "", 0, NoData)

\* A mutated validation: no field is required.
FirstMissing_none_required(data, i) == ""

\* The first required field the request lacks, "" when it has them all.
RECURSIVE FirstMissing(_, _)
FirstMissing(data, i) ==
    IF i > Len(RequiredFields) THEN ""
    ELSE IF RequiredFields[i] \in data.absent THEN RequiredFields[i]
    ELSE FirstMissing(data, i + 1)

\* The Order row api_checkout builds: payment_status defaults to pending.
NewOrder(id, data) ==
    [id |-> id,
     customer_email |-> CustomerEmail,
     payment_method |-> data.payment_method,
     payment_status |-> IF data.payment_status = "absent" THEN "pending"
                        ELSE data.payment_status,
     delivery_status |-> "pending"]

\* The two sends api_checkout makes after its commit, on the queue q.
checkout_emails(q, order_id, out1, out2, t, ex1, ex2) ==
    send_email(
        send_email(q, CustomerEmail, "order_confirmation", order_id, out1, t, ex1),
        AdminEmail, "admin_notification", order_id, out2, t, ex2)

\* api_checkout on the request `data`, with the transport answering out1 to
\* the customer confirmation and out2 to the admin notification.
api_checkout(data, out1, out2) ==
    LET missing == FirstMissing(data, 1)
        order_id == Len(orders) + 1
        flushed == [products |-> products,
                    orders |-> Append(orders, NewOrder(order_id, data)),
                    order_items |-> order_items,
                    error |-> ""]
        work == checkout_items(data, order_id, 1, flushed)
        left == shutdown_session(DbState, work)
    IN  IF missing # "" \/ data.items = <<>>
        THEN /\ resp' = Answer("api_checkout", FALSE,
                               IF missing # "" THEN "Missing field: " \o missing
                               ELSE "No items in order", 0, data)
             /\ smtp_log' = {}
             /\ UNCHANGED <<products, orders, order_items, cart,
                            failed_emails, email_seq, sweeps, sessions,
                            sends>>
        ELSE IF work.error # ""
        THEN /\ products' = left.products
             /\ orders' = left.orders
             /\ order_items' = left.order_items
             /\ resp' = Answer("api_checkout", FALSE, work.error,
                               Len(work.order_items) - Len(order_items) + 1,
                               [NoData EXCEPT
                                   !.payment_status = data.payment_status])
             /\ smtp_log' = {}
             /\ UNCHANGED <<cart, failed_emails, email_seq, sweeps, sessions,
                            sends>>
        ELSE /\ products' = work.products
             /\ orders' = work.orders
             /\ order_items' = work.order_items
             /\ cart' = <<>>
             /\ \E ex1 \in FirstResults(PendingFor(failed_emails, CustomerEmail,
                                            "order_confirmation", order_id)) :
                  LET q1 == send_email(Queue, CustomerEmail, "order_confirmation",
                                       order_id, out1, now, ex1)
                  IN \E ex2 \in FirstResults(PendingFor(q1.rows, AdminEmail,
                                                "admin_notification", order_id)) :
                       LET q2 == checkout_emails(Queue, order_id, out1, out2,
                                                 now, ex1, ex2)
                       IN /\ failed_emails' = q2.rows
                          /\ email_seq' = q2.seq
             /\ smtp_log' = {[row |-> NoRow, recipient |-> CustomerEmail,
                              email_type |-> "order_confirmation",
                              order_id |-> order_id, outcome |-> out1],
                             [row |-> NoRow, recipient |-> AdminEmail,
                              email_type |-> "admin_notification",
                              order_id |-> order_id, outcome |-> out2]}
             /\ resp' = Answer("api_checkout", TRUE, "", 0, data)
             /\ UNCHANGED <<sweeps, sessions, sends>>

\* The requests that may be handled at the same time, one per server worker.
Shoppers == {"a", "b"}

\* A worker that handles no checkout.
NoSession == [pc |-> "idle", data |-> NoData, view |-> <<>>]

\* ------------------------------------------------------------ initial state

\* The callers of retry_failed_emails: the scheduled job (cron_jobs.py) and
\* the admin's "retry now" request, each with a database session of its own.
Workers == {"cron", "admin"}

\* A caller that is not inside retry_failed_emails.
Idle == [pc |-> "idle", todo |-> <<>>, first |-> FALSE, cached |-> 0,
         loaded |-> {}, outcome |-> ""]

Init ==
    /\ products = InitProducts
    /\ orders = <<>>
    /\ order_items = <<>>
    /\ cart = <<>>
    /\ failed_emails = {}
    /\ email_seq = 0
    /\ resp = NoAnswer
    /\ smtp_log = {}
    /\ sweeps = [w \in Workers |-> Idle]
    /\ sessions = [c \in Shoppers |-> NoSession]
    /\ sends = <<>>

\* ------------------------------------------- checkouts, one after another

\* Line items a request may carry: product 3 does not exist; product 1 has
\* no size S and product 2 no size M.
LineItems ==
    [product_id : {1, 2, 3}, size : SizeLabels, quantity : {1, 2}, price : {10}]

\* Requests of one or two line items.
ItemLists ==
    {<<a>> : a \in LineItems} \cup {<<a, b>> : a \in LineItems, b \in LineItems}

CheckoutRequests ==
    [absent : {{}}, items : ItemLists, payment_status : {"paid", "pending"},
     payment_method : {"card"}]

Checkout ==
    /\ Len(orders) < MaxOrders
    /\ \E data \in CheckoutRequests : api_checkout(data, "ok", "ok")

CheckoutNext == Checkout

SpecCheckout == Init /\ [][CheckoutNext]_vars

\* Errors api_checkout answers when a line item fails validation.
ItemErrors == {"Product not found", "Size not available", "Only N available"}

\* C1: a checkout request in which a line item fails validation (unknown
\* product, absent size, quantity above the size's count) leaves no Order and
\* no OrderItem of the request, and every product's sizes, stock and
\* sold_count as they were, also when earlier line items of the request had
\* passed and been decremented.
CheckoutAtomicity ==
    [][(resp'.op = "api_checkout" /\ resp'.error \in ItemErrors)
          => /\ orders' = orders
             /\ order_items' = order_items
             /\ products' = products]_vars

\* A paid request whose second line item failed after the first had passed.
CheckoutAtomicityWitness ==
    /\ resp.op = "api_checkout"
    /\ resp.error \in ItemErrors
    /\ resp.at = 2
    /\ resp.data.payment_status = "paid"

\* C2: after any sequence of successful paid checkouts every product has
\* stock equal to the sum of its sizes, and no size count is ever negative.
StockConservation ==
    \A p \in DOMAIN products :
        /\ products[p].stock = SumValues(products[p].sizes)
        /\ \A s \in DOMAIN products[p].sizes : products[p].sizes[s] >= 0

\* Two paid checkouts in a row have sold a size out.
StockConservationWitness ==
    /\ Len(orders) = 2
    /\ \A i \in 1 .. 2 : orders[i].payment_status = "paid"
    /\ products[1].sizes["M"] = 0
    /\ products[1].sold_count = 3

\* Units of product p in size s that the line items ask for.
RECURSIVE Requested(_, _, _)
Requested(items, p, s) ==
    IF items = <<>> THEN 0
    ELSE (IF Head(items).product_id = p /\ Head(items).size = s
          THEN Head(items).quantity ELSE 0) + Requested(Tail(items), p, s)

RequestedOf(items, p) ==
    SumValues([s \in SizeLabels |-> Requested(items, p, s)])

\* C3: a successful paid checkout creates exactly one Order and one OrderItem
\* per line item, and for each line item (p, s, q) lowers p.sizes[s] by q,
\* p.stock by q and raises p.sold_count by q.
PaidCheckoutEffect ==
    [][(resp'.op = "api_checkout" /\ resp'.success
        /\ resp'.data.payment_status = "paid")
          => LET items == resp'.data.items
             IN /\ Len(orders') = Len(orders) + 1
                /\ SubSeq(orders', 1, Len(orders)) = orders
                /\ Len(order_items') = Len(order_items) + Len(items)
                /\ SubSeq(order_items', 1, Len(order_items)) = order_items
                /\ \A i \in 1 .. Len(items) :
                     LET row == order_items'[Len(order_items) + i]
                     IN /\ row.order_id = orders'[Len(orders')].id
                        /\ row.product_id = items[i].product_id
                        /\ row.size = items[i].size
                        /\ row.quantity = items[i].quantity
                /\ DOMAIN products' = DOMAIN products
                /\ \A p \in DOMAIN products :
                     /\ DOMAIN products'[p].sizes = DOMAIN products[p].sizes
                     /\ \A s \in DOMAIN products[p].sizes :
                          products'[p].sizes[s] =
                              products[p].sizes[s] - Requested(items, p, s)
                     /\ products'[p].stock =
                            products[p].stock - RequestedOf(items, p)
                     /\ products'[p].sold_count =
                            products[p].sold_count + RequestedOf(items, p)]_vars

\* Sizes {M: 3} and a paid item of 2 give {M: 1}, stock 1, sold_count 2, one
\* Order and one OrderItem.
PaidCheckoutEffectWitness ==
    /\ resp.op = "api_checkout" /\ resp.success
    /\ resp.data.payment_status = "paid"
    /\ Len(resp.data.items) = 1
    /\ resp.data.items[1].product_id = 1
    /\ resp.data.items[1].quantity = 2
    /\ products[1].sizes["M"] = 1
    /\ products[1].stock = 1
    /\ products[1].sold_count = 2
    /\ Len(orders) = 1
    /\ Len(order_items) = 1

\* ------------------------------------------- checkouts with failing sends

NotifyRequests ==
    [absent : {{}},
     items : {<<[product_id |-> 1, size |-> "M", quantity |-> 1, price |-> 10]>>},
     payment_status : {"paid", "pending"}, payment_method : {"card"}]

CheckoutNotify ==
    /\ Len(orders) < MaxOrders
    /\ \E data \in NotifyRequests : \E out1 \in SmtpOutcomes, out2 \in SmtpOutcomes :
          api_checkout(data, out1, out2)

NotifyNext == CheckoutNotify

SpecNotify == Init /\ [][NotifyNext]_vars

\* C4: once the checkout has committed, whatever the two sends answer, the
\* Order, its OrderItems and the decrements stay committed and api_checkout
\* answers success; a send that fails is handed to the retry queue as a
\* pending row instead of raising.
NotifyNeverFailsCheckout ==
    [][(resp'.op = "api_checkout" /\ Len(resp'.data.items) > 0
        /\ resp'.error \notin ItemErrors)
          => /\ resp'.success
             /\ Len(orders') = Len(orders) + 1
             /\ Len(order_items') = Len(order_items) + Len(resp'.data.items)
             /\ resp'.data.payment_status = "paid"
                   => products'[1].sizes["M"] = products[1].sizes["M"] - 1
             /\ \A m \in smtp_log' :
                   m.outcome # "ok" =>
                      \E e \in failed_emails' \ failed_emails :
                         /\ e.recipient = m.recipient
                         /\ e.email_type = m.email_type
                         /\ e.order_id = m.order_id
                         /\ e.status = "pending"
                         /\ e.attempts = 1
                         /\ e.error_message = m.outcome
             /\ Cardinality(failed_emails') = Cardinality(failed_emails)
                   + Cardinality({m \in smtp_log' : m.outcome # "ok"})]_vars

\* A paid checkout both of whose sends failed answered success.
NotifyNeverFailsCheckoutWitness ==
    /\ resp.op = "api_checkout" /\ resp.success
    /\ resp.data.payment_status = "paid"
    /\ \A m \in smtp_log : m.outcome # "ok"
    /\ Cardinality(smtp_log) = 2
    /\ Cardinality(failed_emails) = 2
    /\ Len(orders) = 1

\* -------------------------------------------------------------- the sweep

\* What one attempt of the sweep may end with: an answer of _smtp_send, or
\* an exception raised inside the inner try block.
SweepOutcomes == {"ok", "timeout", "raised"}

\* What the transport answers to an immediate send.
SendOutcomes == {"ok", "auth"}

\* A mutated due query: every row whose time has come is selected, whatever
\* its status and its counter.
DueRows_all_due(rows, t) ==
    {e \in rows : e.next_attempt <= t}

\* A mutated due query: rows whose counter is exhausted are selected too.
DueRows_ignores_attempts(rows, t) ==
    {e \in rows : e.status = "pending" /\ e.next_attempt <= t}

\* The query of retry_failed_emails: the rows due for a retry at time t.
DueRows(rows, t) ==
    {e \in rows : /\ e.status = "pending"
                  /\ e.attempts < e.max_attempts
                  /\ e.next_attempt <= t}

\* retry_failed_emails, start of one iteration: the row is counted and
\* committed as sending before the send.
MarkSending(e) == [e EXCEPT !.attempts = @ + 1, !.status = "sending"]

\* A mutated failure branch: the row fails permanently only once its counter
\* is above max_attempts.
retry_failure_late(e, message, t) ==
    LET p == [e EXCEPT !.status = "pending", !.error_message = message]
    IN IF p.attempts > p.max_attempts
       THEN [p EXCEPT !.status = "failed"]
       ELSE [p EXCEPT !.next_attempt = t + RetryDelay(p.attempts)]

\* retry_failed_emails, "Failed again - update for next retry": the marked
\* row e after _smtp_send answered (False, message) at time t.
retry_failure(e, message, t) ==
    LET p == [e EXCEPT !.status = "pending", !.error_message = message]
    IN IF p.attempts >= p.max_attempts
       THEN [p EXCEPT !.status = "failed"]
       ELSE [p EXCEPT !.next_attempt = t + RetryDelay(p.attempts)]

\* retry_failed_emails, the inner except block: the marked row e after an
\* exception inside the try block.
retry_exception(e, text) ==
    [e EXCEPT !.status = "pending", !.error_message = text]

\* One iteration of the sweep's loop on the due row e: the rows that replace
\* it (none when the send succeeded and the row was deleted).
retry_one(e, outcome, t) ==
    IF outcome = "ok" THEN {}
    ELSE IF outcome = "raised" THEN {retry_exception(MarkSending(e), outcome)}
    ELSE {retry_failure(MarkSending(e), outcome, t)}

\* EmailService.retry_failed_emails run from start to end with no other
\* request in between; outs[id] is how the attempt on row id ends.
retry_failed_emails(outs) ==
    LET due == DueRows(failed_emails, now)
    IN /\ DOMAIN outs = {e.id : e \in due}
       /\ failed_emails' = (failed_emails \ due)
                              \cup UNION {retry_one(e, outs[e.id], now) : e \in due}
       /\ smtp_log' = {[row |-> e.id, recipient |-> e.recipient,
                        email_type |-> e.email_type, order_id |-> e.order_id,
                        outcome |-> outs[e.id]] : e \in due}
       /\ resp' = Answer("retry_failed_emails", TRUE, "", 0, NoData)
       /\ UNCHANGED <<products, orders, order_items, cart, email_seq, sweeps,
                      sessions, sends>>

\* One call of EmailService.send_email outside a checkout (as
\* send_delivery_confirmation makes it).
send_email_request(to_email, email_type, order_id, outcome) ==
    \E existing \in FirstResults(PendingFor(failed_emails, to_email,
                                            email_type, order_id)) :
        LET q == send_email(Queue, to_email, email_type, order_id, outcome,
                            now, existing)
        IN /\ q.seq <= MaxRows
           /\ \A e \in q.rows : e.attempts <= MaxEnqueued
           /\ failed_emails' = q.rows
           /\ email_seq' = q.seq
           /\ smtp_log' = {[row |-> NoRow, recipient |-> to_email,
                            email_type |-> email_type, order_id |-> order_id,
                            outcome |-> outcome]}
           /\ resp' = Answer("send_email", outcome = "ok", "", 0, NoData)
           /\ UNCHANGED <<products, orders, order_items, cart, sweeps,
                          sessions>>

\* The same call, with no tally kept of the transport calls.
SendEmailRequest(to_email, email_type, order_id, outcome) ==
    /\ send_email_request(to_email, email_type, order_id, outcome)
    /\ UNCHANGED sends

\* The delays after which a pending row becomes due.
RetryInstants ==
    {e.next_attempt : e \in {r \in failed_emails : r.status = "pending"}}

\* Every row's next_attempt seen d units later.
Later(rows, d) ==
    {[e EXCEPT !.next_attempt = IF @ > d THEN @ - d ELSE 0] : e \in rows}

\* Time passes, up to the next instant at which a pending row becomes due;
\* no request is handled.
Tick ==
    /\ \E d \in RetryInstants :
          /\ d > 0
          /\ \A u \in RetryInstants : u > 0 => d <= u
          /\ failed_emails' = Later(failed_emails, d)
          /\ sweeps' = [w \in Workers |->
                           [sweeps[w] EXCEPT !.loaded = Later(@, d)]]
    /\ resp' = NoAnswer
    /\ smtp_log' = {}
    /\ UNCHANGED <<products, orders, order_items, cart, email_seq, sessions,
                   sends>>

\* ------------------------------------- the retry queue, requests in series

\* The order the queued e-mails are about: placed and paid on delivery.
QueueOrder ==
    NewOrder(1, [NoData EXCEPT !.payment_status = "pending",
                               !.payment_method = "Pay on Delivery"])

InitQueue ==
    /\ products = [InitProducts EXCEPT ![1] = DecrementStock(@, "M", 1)]
    /\ orders = <<QueueOrder>>
    /\ order_items = <<[order_id |-> 1, product_id |-> 1, size |-> "M",
                        quantity |-> 1, price |-> 10]>>
    /\ cart = <<>>
    /\ failed_emails = {}
    /\ email_seq = 0
    /\ resp = NoAnswer
    /\ smtp_log = {}
    /\ sweeps = [w \in Workers |-> Idle]
    /\ sessions = [c \in Shoppers |-> NoSession]
    /\ sends = <<>>

\* order_id of a message that is about no order (None).
NoOrder == 0

\* What the queued messages are: the delivery confirmation of the order
\* (send_delivery_confirmation) and a message with send_email's defaults.
QueueKeys ==
    {[email_type |-> "delivery_confirmation", order_id |-> 1],
     [email_type |-> "general", order_id |-> NoOrder]}

SendEmail ==
    \E key \in QueueKeys, outcome \in SendOutcomes :
        SendEmailRequest(CustomerEmail, key.email_type, key.order_id, outcome)

Sweep ==
    \E outs \in [{e.id : e \in DueRows(failed_emails, now)} -> SweepOutcomes] :
        retry_failed_emails(outs)

QueueNext == SendEmail \/ Sweep \/ Tick

SpecQueue == InitQueue /\ [][QueueNext]_vars

\* The row of the table `rows` with the given id, as a set (empty when the
\* row is gone).
RowsWithId(rows, id) == {e \in rows : e.id = id}

\* The step is an immediate send that failed for a recipient, type and order
\* that had a pending row.
FailedSendOnPending(m) ==
    /\ resp'.op = "send_email"
    /\ m \in smtp_log'
    /\ m.outcome # "ok"
    /\ PendingFor(failed_emails, m.recipient, m.email_type, m.order_id) # {}

\* C5: enqueueing a failure for a (recipient, email_type, order) that has a
\* pending row raises that row's attempts by exactly one and creates no
\* second row; the other rows stay as they are.
EnqueueDeduplicates ==
    [][\A m \in smtp_log' :
          FailedSendOnPending(m) =>
             /\ Cardinality(failed_emails') = Cardinality(failed_emails)
             /\ {e.id : e \in failed_emails'} = {e.id : e \in failed_emails}
             /\ \E old \in PendingFor(failed_emails, m.recipient,
                                      m.email_type, m.order_id) :
                   /\ \E new \in RowsWithId(failed_emails', old.id) :
                         new.attempts = old.attempts + 1
                   /\ failed_emails' \ RowsWithId(failed_emails', old.id)
                         = failed_emails \ {old}]_vars

\* A failed send has updated the pending row of its key while a row of the
\* other type was queued.
EnqueueDeduplicatesWitness ==
    /\ resp.op = "send_email" /\ ~resp.success
    /\ Cardinality(failed_emails) = 2
    /\ \E e \in failed_emails :
          /\ e.status = "pending" /\ e.attempts = 2
          /\ \E m \in smtp_log : m.email_type = e.email_type

\* The step is a sweep whose send on row m.row failed.
FailedRetry(m) ==
    /\ resp'.op = "retry_failed_emails"
    /\ m \in smtp_log'
    /\ m.outcome \in SmtpFailures

\* C6: in a run of failed sweep sends on one row, the row becomes failed at
\* exactly the attempt that makes attempts equal max_attempts: it is pending
\* after every earlier failed attempt, and a failed row is never attempted
\* again.
FailsExactlyAtMaxAttempts ==
    [][/\ \A m \in smtp_log' :
             FailedRetry(m) =>
                \E old \in RowsWithId(failed_emails, m.row) :
                \E new \in RowsWithId(failed_emails', m.row) :
                   /\ old.status = "pending"
                   /\ old.attempts < old.max_attempts
                   /\ new.attempts = old.attempts + 1
                   /\ new.status = IF new.attempts = new.max_attempts
                                   THEN "failed" ELSE "pending"
       /\ \A old \in failed_emails :
             old.status = "failed" =>
                /\ \A m \in smtp_log' : m.row # old.id
                /\ \E new \in RowsWithId(failed_emails', old.id) :
                      new.status = "failed" /\ new.attempts = old.attempts]_vars

\* A sweep's failed send has just taken a row to its last attempt.
FailsExactlyAtMaxAttemptsWitness ==
    /\ resp.op = "retry_failed_emails"
    /\ \E m \in smtp_log : \E e \in RowsWithId(failed_emails, m.row) :
          /\ m.outcome \in SmtpFailures
          /\ e.status = "failed"
          /\ e.attempts = e.max_attempts

\* The step records a failed send on the row old, whose new state is new,
\* and writes its next_attempt: the update path of _queue_email, or the
\* rescheduling branch of retry_failed_emails.
ReschedulesRow(old, new) ==
    /\ new.id = old.id
    /\ new.attempts = old.attempts + 1
    /\ new.status = "pending"
    /\ \/ resp'.op = "send_email"
       \/ /\ resp'.op = "retry_failed_emails"
          /\ \E m \in smtp_log' : m.row = old.id /\ m.outcome \in SmtpFailures

\* C7: for consecutive failed sends recorded on one row (by _queue_email's
\* update path or by retry_failed_emails, in any order), each newly written
\* next_attempt is strictly later than the row's previous next_attempt.
BackoffMonotone ==
    [][\A old \in failed_emails : \A new \in failed_emails' :
          ReschedulesRow(old, new) => new.next_attempt > old.next_attempt]_vars

\* C8: after any sequence of enqueues and sweeps, every row whose attempts
\* is at least max_attempts has status failed.
ExhaustedRowsAreFailed ==
    \A e \in failed_emails :
        e.attempts >= e.max_attempts => e.status = "failed"

\* ------------------------- the retry queue under a scheduler that is fair

\* A sweep that runs to completion: every attempt ends with an answer of
\* the transport.
CompleteSweep ==
    \E outs \in [{e.id : e \in DueRows(failed_emails, now)} -> {"ok", "timeout"}] :
        retry_failed_emails(outs)

FairQueueNext == SendEmail \/ CompleteSweep \/ Tick

\* The scheduler keeps running the sweep (cron_jobs.py, every 5 minutes) and
\* time keeps passing.
FairSpecQueue ==
    /\ InitQueue
    /\ [][FairQueueNext]_vars
    /\ WF_vars(CompleteSweep)
    /\ WF_vars(Tick)

InQueue(id) == RowsWithId(failed_emails, id) # {}

Settled(id) == \A e \in RowsWithId(failed_emails, id) : e.status = "failed"

\* C9: provided sweeps keep being run, time keeps advancing and every sweep
\* runs to completion, every row ever put in the queue is eventually deleted
\* after a successful send or marked failed.
EveryRowSettles ==
    \A id \in 1 .. MaxRows : InQueue(id) ~> Settled(id)

\* ------------------------------------------ sweeps that run at the same time

\* The orders in which the due query, which has no ORDER BY, may return the
\* rows with the ids S.
Orderings(S) ==
    {s \in [1 .. Cardinality(S) -> S] : \A x \in S : \E i \in DOMAIN s : s[i] = x}

\* db.session.commit() on one modified object: the table row e after the
\* UPDATE of an object that was loaded as `old` and now reads `new`. Only
\* the columns that were assigned a different value are written, and the
\* columns in `assigned` (a fresh timestamp) always are.
Flush(e, old, new, assigned) ==
    [c \in DOMAIN e |-> IF new[c] # old[c] \/ c \in assigned THEN new[c] ELSE e[c]]

\* The steps of a sweep below complete no request: they leave no answer and
\* no transport record behind.

\* The caller's state once its loop is done with the head of todo.
NextIteration(sw) ==
    IF Tail(sw.todo) = <<>> THEN Idle
    ELSE [pc |-> "mark", todo |-> Tail(sw.todo), first |-> FALSE,
          cached |-> 0, loaded |-> {}, outcome |-> ""]

\* retry_failed_emails, the query: caller w loads the rows that are due.
\* With nothing due the sweep returns at once and changes nothing.
SweepQuery(w) ==
    /\ sweeps[w].pc = "idle"
    /\ \E order \in Orderings({e.id : e \in DueRows(failed_emails, now)}) :
          /\ order # <<>>
          /\ sweeps' = [sweeps EXCEPT ![w] =
                           [pc |-> "mark", todo |-> order, first |-> TRUE,
                            cached |-> Row(failed_emails, order[1]).attempts,
                            loaded |-> {}, outcome |-> ""]]
    /\ resp' = NoAnswer
    /\ smtp_log' = {}
    /\ UNCHANGED <<products, orders, order_items, cart, failed_emails, email_seq,
                   sessions, sends>>

\* retry_failed_emails, start of an iteration: attempts += 1, status =
\* 'sending', commit. The first row is counted from the values the query
\* loaded; a commit expires the session's objects, so later rows are read
\* again. A row that is gone raises (ObjectDeletedError, StaleDataError)
\* outside the inner try and the outer except ends the sweep.
SweepMark(w) ==
    LET sw == sweeps[w]
        id == Head(sw.todo)
        e == Row(failed_emails, id)
        old == IF sw.first
               THEN [e EXCEPT !.attempts = sw.cached, !.status = "pending"]
               ELSE e
    IN /\ sw.pc = "mark"
       /\ IF RowsWithId(failed_emails, id) = {}
          THEN /\ sweeps' = [sweeps EXCEPT ![w] = Idle]
               /\ UNCHANGED failed_emails
          ELSE /\ failed_emails' = (failed_emails \ {e})
                                      \cup {Flush(e, old, MarkSending(old), {})}
               /\ sweeps' = [sweeps EXCEPT ![w].pc = "send", ![w].first = FALSE,
                                            ![w].cached = 0]
       /\ resp' = NoAnswer
       /\ smtp_log' = {}
       /\ UNCHANGED <<products, orders, order_items, cart, email_seq,
                      sessions, sends>>

\* retry_failed_emails, the send: the expired row is read again and handed
\* to _smtp_send, which answers `outcome`. A row that is gone raises inside
\* the try; the commit of the except block raises again and ends the sweep.
sweep_send(w, outcome) ==
    LET sw == sweeps[w]
        id == Head(sw.todo)
    IN /\ sw.pc = "send"
       /\ IF RowsWithId(failed_emails, id) = {}
          THEN sweeps' = [sweeps EXCEPT ![w] = Idle]
          ELSE sweeps' = [sweeps EXCEPT ![w].pc = "result",
                                        ![w].loaded = RowsWithId(failed_emails, id),
                                        ![w].outcome = outcome]
       /\ resp' = NoAnswer
       /\ smtp_log' = {}
       /\ UNCHANGED <<products, orders, order_items, cart, failed_emails, email_seq,
                      sessions>>

\* The same step, with no tally kept of the transport calls.
SweepSend(w, outcome) ==
    /\ sweep_send(w, outcome)
    /\ UNCHANGED sends

\* retry_failed_emails, after the send: the row is deleted, or rescheduled
\* or failed from the values read before the send, and committed.
SweepResult(w) ==
    LET sw == sweeps[w]
        id == Head(sw.todo)
        e == Row(failed_emails, id)
        old == CHOOSE r \in sw.loaded : TRUE
        new == retry_failure(old, sw.outcome, now)
    IN /\ sw.pc = "result"
       /\ IF sw.outcome = "ok"
          THEN /\ failed_emails' = failed_emails \ RowsWithId(failed_emails, id)
               /\ sweeps' = [sweeps EXCEPT ![w] = NextIteration(sw)]
          ELSE IF RowsWithId(failed_emails, id) = {}
          THEN /\ sweeps' = [sweeps EXCEPT ![w] = Idle]
               /\ UNCHANGED failed_emails
          ELSE /\ failed_emails' =
                     (failed_emails \ {e})
                        \cup {Flush(e, old, new,
                                    IF new.status = "failed" THEN {}
                                    ELSE {"next_attempt"})}
               /\ sweeps' = [sweeps EXCEPT ![w] = NextIteration(sw)]
       /\ resp' = NoAnswer
       /\ smtp_log' = {}
       /\ UNCHANGED <<products, orders, order_items, cart, email_seq,
                      sessions, sends>>

\* The delivery confirmation of the order is sent while none is waiting in
\* the queue, and the transport refuses it.
SendFails ==
    /\ PendingFor(failed_emails, CustomerEmail, "delivery_confirmation", 1) = {}
    /\ SendEmailRequest(CustomerEmail, "delivery_confirmation", 1, "auth")

SweepStep ==
    \E w \in Workers :
        \/ SweepQuery(w)
        \/ SweepMark(w)
        \/ \E outcome \in {"ok", "timeout"} : SweepSend(w, outcome)
        \/ SweepResult(w)

SweepsNext == SendFails \/ Tick \/ SweepStep

SpecSweeps == InitQueue /\ [][SweepsNext]_vars

\* Caller w has sent row id and has not yet written what came of it.
HasSent(w, id) ==
    /\ sweeps[w].pc = "result"
    /\ Head(sweeps[w].todo) = id

\* C10: when two sweeps run at the same time no due row is processed by
\* both: at no time have both callers sent the same row.
NoRowSentByBothSweeps ==
    \A id \in 1 .. MaxRows :
        ~ (\A w \in Workers : HasSent(w, id))

\* -------------------------------------------------------------------- cart

\* cart_key = f"{product_id}_{size}"
CartKey(product_id, size) == <<product_id, size>>

\* sum(f(item) for item in cart.values())
RECURSIVE SumOver(_, _)
SumOver(c, keys) ==
    IF keys = {} THEN 0
    ELSE LET k == CHOOSE x \in keys : TRUE
         IN c[k] + SumOver(c, keys \ {k})

\* calculate_cart_total: price * quantity summed over the entries.
calculate_cart_total(c) ==
    SumOver([k \in DOMAIN c |-> c[k].price * c[k].quantity], DOMAIN c)

\* item_count = sum(item['quantity'] for item in cart.values())
item_count(c) == SumOver([k \in DOMAIN c |-> c[k].quantity], DOMAIN c)

\* cart.get(cart_key, {}).get('quantity', 0)
current_in_cart(c, key) == IF key \in DOMAIN c THEN c[key].quantity ELSE 0

\* product.sizes.get(size, 0)
SizeCount(product, size) ==
    IF size \in DOMAIN product.sizes THEN product.sizes[size] ELSE 0

\* The cart c without the entry of key (del cart[cart_key]).
WithoutKey(c, key) == [k \in DOMAIN c \ {key} |-> c[k]]

\* The cart c with the entry of key set to entry.
WithKey(c, key, entry) ==
    [k \in DOMAIN c \cup {key} |-> IF k = key THEN entry ELSE c[k]]

\* What a cart request is answered with, next to what it asked for.
CartData(key, quantity, c) ==
    [key |-> key, quantity |-> quantity,
     cart_total |-> calculate_cart_total(c), cart_count |-> item_count(c)]

\* A mutated merge: a merging add takes the product's price of the moment.
MergeEntry_reprices(entry, product, requested_total) ==
    [entry EXCEPT !.quantity = requested_total, !.price = product.price]

\* add_to_cart, "Update cart", the key being in the cart: only the quantity
\* of the entry changes.
MergeEntry(entry, product, requested_total) ==
    [entry EXCEPT !.quantity = requested_total]

\* add_to_cart, "Update cart", the key being new.
NewEntry(product_id, product, size, quantity) ==
    [product_id |-> product_id, price |-> product.price, size |-> size,
     quantity |-> quantity, max_stock |-> SizeCount(product, size)]

\* add_to_cart, its early returns: the error it answers, "" when it goes on
\* to change the cart.
add_error(product_id, size, quantity) ==
    IF size = "" THEN "Please select a size"
    ELSE IF product_id \notin DOMAIN products THEN "Product not found"
    ELSE IF ~check_size_availability(products[product_id], size, quantity)
    THEN size_availability_message(products[product_id], size, quantity)
    ELSE IF ~check_size_availability(products[product_id], size,
                current_in_cart(cart, CartKey(product_id, size)) + quantity)
    THEN size_availability_message(products[product_id], size,
                current_in_cart(cart, CartKey(product_id, size)) + quantity)
    ELSE ""

\* POST /api/cart/add
add_to_cart(product_id, size, quantity) ==
    LET key == CartKey(product_id, size)
        error == add_error(product_id, size, quantity)
        requested_total == current_in_cart(cart, key) + quantity
        product == products[product_id]
        saved == WithKey(cart, key,
                         IF key \in DOMAIN cart
                         THEN MergeEntry(cart[key], product, requested_total)
                         ELSE NewEntry(product_id, product, size, quantity))
    IN /\ IF error # ""
          THEN /\ resp' = Answer("add_to_cart", FALSE, error, 0,
                                 CartData(key, quantity, cart))
               /\ UNCHANGED cart
          ELSE /\ cart' = saved
               /\ resp' = Answer("add_to_cart", TRUE, "", 0,
                                 CartData(key, quantity, saved))
       /\ smtp_log' = {}
       /\ UNCHANGED <<products, orders, order_items, failed_emails,
                      email_seq, sweeps, sessions, sends>>

\* A mutated update: the new quantity is not validated against the stock.
update_error_unchecked(key, quantity) ==
    IF quantity < 0 THEN "Invalid quantity"
    ELSE IF key \notin DOMAIN cart THEN "Item not in cart"
    ELSE ""

\* update_cart, its early returns: the error it answers, "" when it goes on
\* to change the cart.
update_error(key, quantity) ==
    IF quantity < 0 THEN "Invalid quantity"
    ELSE IF key \notin DOMAIN cart THEN "Item not in cart"
    ELSE IF quantity = 0 THEN ""
    ELSE IF cart[key].product_id \notin DOMAIN products
    THEN "Product not found"
    ELSE IF ~check_size_availability(products[cart[key].product_id],
                                     cart[key].size, quantity)
    THEN size_availability_message(products[cart[key].product_id],
                                   cart[key].size, quantity)
    ELSE ""

\* POST /api/cart/update
update_cart(key, quantity) ==
    LET error == update_error(key, quantity)
        saved == IF quantity = 0 THEN WithoutKey(cart, key)
                 ELSE [cart EXCEPT ![key].quantity = quantity]
    IN /\ IF error # ""
          THEN /\ resp' = Answer("update_cart", FALSE, error, 0,
                                 CartData(key, quantity, cart))
               /\ UNCHANGED cart
          ELSE /\ cart' = saved
               /\ resp' = Answer("update_cart", TRUE, "", 0,
                                 CartData(key, quantity, saved))
       /\ smtp_log' = {}
       /\ UNCHANGED <<products, orders, order_items, failed_emails,
                      email_seq, sweeps, sessions, sends>>

\* A mutated removal: an unknown key is answered as a success.
remove_found_always(c, key) == TRUE

\* remove_from_cart: `if cart_key in cart`
remove_found(c, key) == key \in DOMAIN c

\* POST /api/cart/remove
remove_from_cart(key) ==
    /\ IF remove_found(cart, key)
       THEN /\ cart' = WithoutKey(cart, key)
            /\ resp' = Answer("remove_from_cart", TRUE, "", 0,
                              CartData(key, 0, WithoutKey(cart, key)))
       ELSE /\ resp' = Answer("remove_from_cart", FALSE, "Item not in cart", 0,
                              CartData(key, 0, cart))
            /\ UNCHANGED cart
    /\ smtp_log' = {}
    /\ UNCHANGED <<products, orders, order_items, failed_emails,
                   email_seq, sweeps, sessions, sends>>

\* ------------------------------------------------------------------- admin

\* edit_product, "Update size quantities": the sizes the form gives with a
\* quantity that is not negative (a blank field counts as not given).
EditedSizes(form) ==
    [s \in {x \in DOMAIN form.sizes : form.sizes[x] >= 0} |-> form.sizes[s]]

\* The product after edit_product applied the form: the price when the form
\* has one, the sizes and their sum when the form gives any size.
EditedProduct(product, form) ==
    LET priced == IF form.has_price THEN [product EXCEPT !.price = form.price]
                  ELSE product
        sizes == EditedSizes(form)
    IN IF DOMAIN sizes = {} THEN priced
       ELSE [priced EXCEPT !.sizes = sizes, !.stock = SumValues(sizes)]

\* POST /admin/edit-product/<product_id>
edit_product(product_id, form) ==
    /\ IF product_id \notin DOMAIN products
       THEN /\ resp' = Answer("edit_product", FALSE, "Product not found", 0,
                              NoData)
            /\ UNCHANGED products
       ELSE /\ products' = [products EXCEPT
                              ![product_id] = EditedProduct(@, form)]
            /\ resp' = Answer("edit_product", TRUE, "", 0, NoData)
    /\ smtp_log' = {}
    /\ UNCHANGED <<orders, order_items, cart, failed_emails, email_seq, sweeps,
                   sessions, sends>>

\* ------------------------------------------- one shopper's cart and the admin

\* Quantities a cart request may carry: int(data.get('quantity')) takes any
\* integer.
CartQuantities == {-1, 0, 1, 2}

\* Products and sizes a cart request may name: product 3 does not exist and
\* "" is no size.
CartProducts == {1, 2, 3}
CartSizes == SizeLabels \cup {""}

\* Most units below zero a cart entry is driven to.
MaxReturned == 1

AddToCart ==
    \E product_id \in CartProducts, size \in CartSizes,
       quantity \in CartQuantities \ {0} :
        /\ current_in_cart(cart, CartKey(product_id, size)) + quantity
              >= 0 - MaxReturned
        /\ add_to_cart(product_id, size, quantity)

UpdateCart ==
    \E product_id \in CartProducts, size \in SizeLabels,
       quantity \in CartQuantities :
        update_cart(CartKey(product_id, size), quantity)

RemoveFromCart ==
    \E product_id \in CartProducts, size \in SizeLabels :
        remove_from_cart(CartKey(product_id, size))

\* What the admin submits: a new price for product 1 or 3, or new
\* quantities that leave product 2 with size M only.
EditRequests ==
    [product_id : {1, 3},
     form : {[has_price |-> TRUE, price |-> 30, sizes |-> <<>>]}]
    \cup
    [product_id : {2},
     form : {[has_price |-> FALSE, price |-> 0,
              sizes |-> ("M" :> 1) @@ ("S" :> -1)]}]

EditProduct ==
    \E r \in EditRequests : edit_product(r.product_id, r.form)

\* Checkout requests that lack one required field or carry no items.
RejectedRequests ==
    [absent : {{}}, items : {<<>>}, payment_status : {"paid"},
     payment_method : {"card"}]
    \cup [absent : {{RequiredFields[i]} : i \in DOMAIN RequiredFields},
          items : {<<[product_id |-> 1, size |-> "M", quantity |-> 1,
                      price |-> 10]>>},
          payment_status : {"paid"}, payment_method : {"card"}]

RejectedCheckout ==
    \E data \in RejectedRequests : api_checkout(data, "ok", "ok")

CartNext ==
    AddToCart \/ UpdateCart \/ RemoveFromCart \/ EditProduct \/ RejectedCheckout

SpecCart == Init /\ [][CartNext]_vars

\* C11: a checkout request that lacks a required field or whose items list
\* is empty is answered with success false, creates no Order and no
\* OrderItem, and changes no product and not the session cart.
RejectedCheckoutChangesNothing ==
    [][(/\ resp'.op = "api_checkout"
        /\ \/ resp'.data.absent # {}
           \/ resp'.data.items = <<>>)
          => /\ ~resp'.success
             /\ orders' = orders
             /\ order_items' = order_items
             /\ products' = products
             /\ cart' = cart]_vars

\* A request without its payment_method was rejected while the cart held an
\* entry.
RejectedCheckoutChangesNothingWitness ==
    /\ resp.op = "api_checkout"
    /\ resp.error = "Missing field: payment_method"
    /\ DOMAIN cart # {}
    /\ orders = <<>>

\* The step is an immediate send that failed for a recipient, type and order
\* that had no pending row.
FailedSendOnNew(m) ==
    /\ resp'.op = "send_email"
    /\ m \in smtp_log'
    /\ m.outcome # "ok"
    /\ PendingFor(failed_emails, m.recipient, m.email_type, m.order_id) = {}

\* C12: a transport failure of a send for which no pending row with the same
\* (recipient, email_type, order) exists creates exactly one new row, with
\* attempts = 1, status = pending and next_attempt = enqueue time + 5 minutes.
FirstFailureInsertsRow ==
    [][\A m \in smtp_log' :
          FailedSendOnNew(m) =>
             /\ failed_emails \subseteq failed_emails'
             /\ \E new \in failed_emails' :
                   /\ failed_emails' \ failed_emails = {new}
                   /\ new.id \notin {e.id : e \in failed_emails}
                   /\ new.recipient = m.recipient
                   /\ new.email_type = m.email_type
                   /\ new.order_id = m.order_id
                   /\ new.attempts = 1
                   /\ new.status = "pending"
                   /\ new.next_attempt = now + InitialDelay]_vars

\* A first failure has just been queued next to a row that was being retried.
FirstFailureInsertsRowWitness ==
    /\ resp.op = "send_email" /\ ~resp.success
    /\ \E e \in failed_emails :
          /\ e.attempts = 1 /\ e.status = "pending"
          /\ e.next_attempt = now + InitialDelay
          /\ \E m \in smtp_log : m.email_type = e.email_type
    /\ \E e \in failed_emails : e.attempts >= 2

\* C13: remove_from_cart with a key that is not in the cart answers a
\* failure and leaves the cart as it was; with a key that is in the cart it
\* succeeds and the key is gone, so that a second removal of the same key
\* fails without further change.
RemovalOfUnknownKeyFails ==
    [][resp'.op = "remove_from_cart" =>
          LET key == resp'.data.key
          IN IF key \in DOMAIN cart
             THEN /\ resp'.success
                  /\ DOMAIN cart' = DOMAIN cart \ {key}
                  /\ \A k \in DOMAIN cart' : cart'[k] = cart[k]
             ELSE /\ ~resp'.success
                  /\ resp'.error = "Item not in cart"
                  /\ cart' = cart]_vars

\* A key that is not in the cart was asked to be removed while the cart
\* held another entry.
RemovalOfUnknownKeyFailsWitness ==
    /\ resp.op = "remove_from_cart"
    /\ ~resp.success
    /\ resp.data.key = CartKey(1, "M")
    /\ DOMAIN cart = {CartKey(2, "S")}

\* C14: add_to_cart(product, size, quantity) succeeds exactly when the size
\* is one of the product's sizes and current_in_cart + quantity <=
\* sizes[size]; on success the entry of the key has quantity current_in_cart
\* + quantity and the other entries are unchanged; on rejection the cart is
\* unchanged.
AddSucceedsExactlyWhenAvailable ==
    [][(resp'.op = "add_to_cart" /\ resp'.data.key[1] \in DOMAIN products) =>
          LET key == resp'.data.key
              product == products[key[1]]
              size == key[2]
              total == current_in_cart(cart, key) + resp'.data.quantity
          IN /\ resp'.success <=> /\ size \in DOMAIN product.sizes
                                  /\ total <= product.sizes[size]
             /\ resp'.success =>
                   /\ DOMAIN cart' = DOMAIN cart \cup {key}
                   /\ cart'[key].quantity = total
                   /\ \A k \in DOMAIN cart \ {key} : cart'[k] = cart[k]
             /\ ~resp'.success => cart' = cart]_vars

\* C15: update_cart(key, quantity) on a key of the cart: quantity 0 removes
\* the entry; quantity > 0 sets the entry's quantity exactly when quantity <=
\* the product's current sizes[size]; quantity < 0 is rejected; every
\* rejection, also that of an unknown key, leaves the cart unchanged.
UpdateRevalidates ==
    [][resp'.op = "update_cart" =>
          LET key == resp'.data.key
              quantity == resp'.data.quantity
          IN /\ ~resp'.success => cart' = cart
             /\ key \notin DOMAIN cart => ~resp'.success
             /\ key \in DOMAIN cart =>
                   /\ quantity < 0 => ~resp'.success
                   /\ quantity = 0 =>
                         /\ resp'.success
                         /\ DOMAIN cart' = DOMAIN cart \ {key}
                         /\ \A k \in DOMAIN cart' : cart'[k] = cart[k]
                   /\ quantity > 0 =>
                         /\ resp'.success <=>
                               /\ cart[key].product_id \in DOMAIN products
                               /\ quantity <=
                                     SizeCount(products[cart[key].product_id],
                                               cart[key].size)
                         /\ resp'.success =>
                               /\ DOMAIN cart' = DOMAIN cart
                               /\ cart'[key].quantity = quantity
                               /\ \A k \in DOMAIN cart \ {key} :
                                     cart'[k] = cart[k]]_vars

\* An update to 2 units of a size that counts 1 was rejected and the entry
\* kept its 1 unit, while the size the cart's other entry is of was gone.
UpdateRevalidatesWitness ==
    /\ resp.op = "update_cart"
    /\ ~resp.success
    /\ resp.data.key = CartKey(2, "M")
    /\ resp.data.quantity = 2
    /\ DOMAIN cart = {CartKey(2, "M"), CartKey(2, "S")}
    /\ cart[CartKey(2, "M")].quantity = 1
    /\ products[2].sizes = ("M" :> 1)

\* The keys a cart can hold.
CartKeys == {CartKey(p, s) : p \in CartProducts, s \in SizeLabels}

\* price * quantity of the entry of key k, 0 when the cart has none.
LineTotal(c, k) == IF k \in DOMAIN c THEN c[k].price * c[k].quantity ELSE 0

\* C16: the cart total every cart operation returns is the sum over the
\* entries of captured price times quantity, the captured price being the
\* product's price at the first add of the key: no later step (a price edit,
\* a merging add, an update) changes the price of an entry.
TotalUsesCapturedPrice ==
    [][/\ (resp'.op \in {"add_to_cart", "update_cart", "remove_from_cart"}
           /\ resp'.success)
          => resp'.data.cart_total =
                SumOver([k \in CartKeys |-> LineTotal(cart', k)], CartKeys)
       /\ \A k \in DOMAIN cart' :
             IF k \in DOMAIN cart
             THEN cart'[k].price = cart[k].price
             ELSE /\ resp'.op = "add_to_cart"
                  /\ cart'[k].price = products[k[1]].price]_vars

\* An add has merged into an entry whose product's price had been changed
\* after the first add.
TotalUsesCapturedPriceWitness ==
    /\ resp.op = "add_to_cart" /\ resp.success
    /\ resp.data.key = CartKey(1, "M")
    /\ CartKey(1, "M") \in DOMAIN cart
    /\ cart[CartKey(1, "M")].quantity = 3
    /\ cart[CartKey(1, "M")].price = 10
    /\ products[1].price = 30
    /\ resp.data.cart_total = 30

\* ------------------------------------------------ deleting ordered products

\* A mutated guard: the order items are not counted.
order_items_count_zero(items, product_id) == 0

\* delete_product: func.count(OrderItem.id) filtered by product_id.
order_items_count(items, product_id) ==
    Cardinality({i \in DOMAIN items : items[i].product_id = product_id})

\* POST or DELETE /admin/delete-product/<product_id>
delete_product(product_id) ==
    /\ IF product_id \notin DOMAIN products
       THEN /\ resp' = Answer("delete_product", FALSE, "Product not found", 0,
                              [product_id |-> product_id])
            /\ UNCHANGED products
       ELSE IF order_items_count(order_items, product_id) > 0
       THEN /\ resp' = Answer("delete_product", FALSE,
                              "Cannot delete product that has been ordered", 0,
                              [product_id |-> product_id])
            /\ UNCHANGED products
       ELSE /\ products' = [p \in DOMAIN products \ {product_id} |-> products[p]]
            /\ resp' = Answer("delete_product", TRUE, "", 0,
                              [product_id |-> product_id])
    /\ smtp_log' = {}
    /\ UNCHANGED <<orders, order_items, cart, failed_emails, email_seq, sweeps,
                   sessions, sends>>

\* Requests of one line item of a size the product was created with.
CatalogueRequests ==
    [absent : {{}},
     items : {<<[product_id |-> 1, size |-> "M", quantity |-> 1, price |-> 10]>>,
              <<[product_id |-> 2, size |-> "S", quantity |-> 1, price |-> 20]>>},
     payment_status : {"paid", "pending"}, payment_method : {"card"}]

CatalogueCheckout ==
    /\ Len(orders) < MaxOrders
    /\ \E data \in CatalogueRequests : api_checkout(data, "ok", "ok")

DeleteProduct == \E product_id \in CartProducts : delete_product(product_id)

\* The shopper puts one unit in the cart.
CatalogueAdd ==
    \E product_id \in {1, 2}, size \in SizeLabels :
        add_to_cart(product_id, size, 1)

CatalogueNext == CatalogueCheckout \/ DeleteProduct \/ CatalogueAdd

SpecCatalogue == Init /\ [][CatalogueNext]_vars

\* C17: delete_product on a product that an OrderItem references is rejected
\* and leaves the product and the order items unchanged, so that after any
\* sequence of checkouts and deletions every OrderItem references a product
\* that still exists.
OrderedProductsAreKept ==
    /\ [](\A i \in DOMAIN order_items :
             order_items[i].product_id \in DOMAIN products)
    /\ [][(/\ resp'.op = "delete_product"
           /\ order_items_count(order_items, resp'.data.product_id) > 0)
             => /\ ~resp'.success
                /\ products' = products
                /\ order_items' = order_items]_vars

\* The deletion of product 1 was refused because an order holds it, after
\* product 2, never ordered, had been deleted.
OrderedProductsAreKeptWitness ==
    /\ resp.op = "delete_product"
    /\ resp.error = "Cannot delete product that has been ordered"
    /\ resp.data.product_id = 1
    /\ DOMAIN products = {1}
    /\ Len(order_items) >= 1

\* ------------------------------------- checkouts of any payment and quantity

\* One line item of a size the product has; item['quantity'] is any integer
\* the request states.
PaymentItems ==
    [product_id : {1}, size : {"M"}, quantity : {-1, 1, 2}, price : {10}]
    \cup [product_id : {2}, size : {"S"}, quantity : {-1, 1}, price : {20}]

\* payment_status is "paid", another status, or not stated.
PaymentRequests ==
    [absent : {{}}, items : {<<a>> : a \in PaymentItems},
     payment_status : {"paid", "pending", "failed", "absent"},
     payment_method : {"card", "Pay on Delivery"}]

PaymentCheckout ==
    /\ Len(orders) < MaxOrders
    /\ \E data \in PaymentRequests : api_checkout(data, "ok", "ok")

PaymentNext == PaymentCheckout

SpecPayments == Init /\ [][PaymentNext]_vars

\* C18: a successful checkout whose payment_status is absent or anything
\* other than "paid" creates the Order and its OrderItems and leaves every
\* product's sizes, stock and sold_count unchanged.
UnpaidCheckoutKeepsStock ==
    [][(/\ resp'.op = "api_checkout"
        /\ resp'.success
        /\ resp'.data.payment_status # "paid")
          => /\ Len(orders') = Len(orders) + 1
             /\ orders'[Len(orders')].payment_status =
                   (IF resp'.data.payment_status = "absent" THEN "pending"
                    ELSE resp'.data.payment_status)
             /\ Len(order_items') = Len(order_items) + Len(resp'.data.items)
             /\ \A i \in 1 .. Len(resp'.data.items) :
                   order_items'[Len(order_items) + i].order_id = Len(orders')
             /\ products' = products]_vars

\* A request that states no payment_status was accepted after a paid one
\* had sold two units.
UnpaidCheckoutKeepsStockWitness ==
    /\ resp.op = "api_checkout" /\ resp.success
    /\ resp.data.payment_status = "absent"
    /\ Len(orders) = 2
    /\ orders[2].payment_status = "pending"
    /\ Len(order_items) = 2
    /\ products[1].sizes["M"] = 1
    /\ products[1].sold_count = 2

\* C19: over any sequence of operations a product's sold_count never
\* decreases, whatever quantity a line item that passes validation carries.
SoldCountNeverDecreases ==
    [][\A p \in DOMAIN products \cap DOMAIN products' :
          products'[p].sold_count >= products[p].sold_count]_vars

\* The row e is pending, has attempts left and is due at time t.
IsDue(e, t) ==
    /\ e.status = "pending"
    /\ e.attempts < e.max_attempts
    /\ e.next_attempt <= t

\* C20: a sweep sends and modifies only rows that at its start are pending,
\* have attempts < max_attempts and next_attempt <= now; every other row
\* keeps its attempts, status, next_attempt and error_message and is not
\* sent.
SweepTouchesOnlyDueRows ==
    [][resp'.op = "retry_failed_emails" =>
          /\ \A e \in failed_emails :
                ~IsDue(e, now) =>
                   /\ e \in failed_emails'
                   /\ \A m \in smtp_log' : m.row # e.id
          /\ \A m \in smtp_log' :
                \E e \in failed_emails : e.id = m.row /\ IsDue(e, now)]_vars

\* A sweep has retried one row and passed over a pending row whose attempts
\* are exhausted.
SweepTouchesOnlyDueRowsWitness ==
    /\ resp.op = "retry_failed_emails"
    /\ smtp_log # {}
    /\ \E e \in failed_emails :
          /\ e.status = "pending"
          /\ e.attempts >= e.max_attempts
          /\ e.next_attempt <= now
          /\ \A m \in smtp_log : m.row # e.id

\* -------------------------------- one message, its retries and its re-sends

\* The delivery confirmation of the order is sent once more.
SendDelivery ==
    \E outcome \in SendOutcomes :
        SendEmailRequest(CustomerEmail, "delivery_confirmation", 1, outcome)

RetryNext == SendDelivery \/ Sweep \/ Tick

SpecRetry == InitQueue /\ [][RetryNext]_vars

SameRowLater(old, new) ==
    /\ new = [old EXCEPT !.next_attempt = new.next_attempt]
    /\ new.next_attempt <= old.next_attempt

\* C22: once a row is failed, no later enqueue or sweep changes a field of
\* it, deletes it or sends it again; an enqueue for its (recipient,
\* email_type, order) inserts a new row.
FailedRowsAreTerminal ==
    [][\A old \in failed_emails :
          old.status = "failed" =>
             /\ \A m \in smtp_log' : m.row # old.id
             /\ IF resp'.op = ""
                THEN \E new \in RowsWithId(failed_emails', old.id) :
                        SameRowLater(old, new)
                ELSE old \in failed_emails'
             /\ \A m \in smtp_log' :
                   (/\ resp'.op = "send_email"
                    /\ m.outcome # "ok"
                    /\ m.recipient = old.recipient
                    /\ m.email_type = old.email_type
                    /\ m.order_id = old.order_id
                    /\ \A e \in failed_emails :
                          e.status = "pending" => e.email_type # m.email_type)
                      => \E new \in failed_emails' \ failed_emails :
                            /\ new.id \notin {e.id : e \in failed_emails}
                            /\ new.status = "pending"
                            /\ new.attempts = 1]_vars

\* The delivery confirmation failed once more after its row had failed for
\* good: a second row was inserted next to the failed one.
FailedRowsAreTerminalWitness ==
    /\ resp.op = "send_email" /\ ~resp.success
    /\ \E e \in failed_emails : e.id = 1 /\ e.status = "failed"
    /\ \E e \in failed_emails :
          e.id = 2 /\ e.status = "pending" /\ e.attempts = 1

\* ------------------------------------ a sweep whose attempt raises midway

\* retry_failed_emails, an exception inside the try before the result is
\* written (the row cannot be read, the transport object cannot be built):
\* the except block sets the row pending and commits.
SweepSendRaises(w) ==
    LET sw == sweeps[w]
        id == Head(sw.todo)
        e == Row(failed_emails, id)
    IN /\ sw.pc = "send"
       /\ RowsWithId(failed_emails, id) # {}
       /\ failed_emails' = (failed_emails \ {e}) \cup {retry_exception(e, "raised")}
       /\ sweeps' = [sweeps EXCEPT ![w] = NextIteration(sw)]
       /\ resp' = NoAnswer
       /\ smtp_log' = {}
       /\ UNCHANGED <<products, orders, order_items, cart, email_seq,
                      sessions, sends>>

\* retry_failed_emails, the commit after the send raises (the database
\* refuses the write or is not reachable): the session is left needing a
\* rollback, so the commit of the except block raises as well, the outer
\* except returns the stats and the row stays as the last commit left it.
SweepResultRaises(w) ==
    /\ sweeps[w].pc = "result"
    /\ sweeps' = [sweeps EXCEPT ![w] = Idle]
    /\ resp' = NoAnswer
    /\ smtp_log' = {}
    /\ UNCHANGED <<products, orders, order_items, cart, failed_emails,
                   email_seq, sessions, sends>>

\* The scheduled job runs its sweeps alone.
StorageStep ==
    \/ SweepQuery("cron")
    \/ SweepMark("cron")
    \/ \E outcome \in {"ok", "timeout"} : SweepSend("cron", outcome)
    \/ SweepSendRaises("cron")
    \/ SweepResult("cron")
    \/ SweepResultRaises("cron")

\* No immediate send is made while a sweep runs.
SendBetweenSweeps ==
    /\ \A w \in Workers : sweeps[w].pc = "idle"
    /\ SendFails

StorageNext == SendBetweenSweeps \/ Tick \/ StorageStep

SpecStorage == InitQueue /\ [][StorageNext]_vars

\* C23: whenever a sweep has returned, none of the rows it processed has
\* status sending: each is deleted, pending or failed, also when the send or
\* a storage write of the attempt raised.
NoRowLeftSending ==
    (\A w \in Workers : sweeps[w].pc = "idle")
        => \A e \in failed_emails : e.status # "sending"

\* C27: at any time at most one row with status pending exists for one
\* (recipient, email_type, order), also when an enqueue interleaves with a
\* sweep that holds the row as sending and later returns it to pending.
OnePendingRowPerKey ==
    \A e1, e2 \in failed_emails :
        (/\ e1.status = "pending"
         /\ e2.status = "pending"
         /\ e1.recipient = e2.recipient
         /\ e1.email_type = e2.email_type
         /\ e1.order_id = e2.order_id) => e1.id = e2.id

\* C28: every entry of the session cart has a quantity of at least 1 after
\* any add, update or removal.
CartQuantitiesPositive ==
    \A k \in DOMAIN cart : cart[k].quantity >= 1

\* C29: a successful checkout records no order items whose quantities for
\* one product and size add up to more than the stock of that size when the
\* checkout started, whatever the payment status.
CheckoutWithinStock ==
    [][(resp'.op = "api_checkout" /\ resp'.success)
        => \A p \in DOMAIN products : \A s \in DOMAIN products[p].sizes :
             Requested(resp'.data.items, p, s) <= products[p].sizes[s]]_vars

\* ------------------------------------------------ the admin's stock forms

\* Most products the catalogue holds.
MaxProducts == 3

\* add_product, "Get size quantities": the sizes the form gives with a
\* quantity above zero.
AddedSizes(form) ==
    [s \in {x \in DOMAIN form.sizes : form.sizes[x] > 0} |-> form.sizes[s]]

\* The id the database gives the next product.
NextProductId(ps) ==
    IF DOMAIN ps = {} THEN 1
    ELSE (CHOOSE p \in DOMAIN ps : \A q \in DOMAIN ps : q <= p) + 1

\* POST /admin/add-product
add_product(form) ==
    LET sizes == AddedSizes(form)
    IN /\ IF form.name = ""
          THEN /\ resp' = Answer("add_product", FALSE,
                                 "Product name is required", 0, NoData)
               /\ UNCHANGED products
          ELSE IF DOMAIN sizes = {}
          THEN /\ resp' = Answer("add_product", FALSE,
                                 "Please add at least one size with quantity",
                                 0, NoData)
               /\ UNCHANGED products
          ELSE IF ~form.category_found
          THEN /\ resp' = Answer("add_product", FALSE,
                                 "Please select a valid category", 0, NoData)
               /\ UNCHANGED products
          ELSE /\ products' = products @@
                     (NextProductId(products) :> NewProduct(sizes, form.price))
               /\ resp' = Answer("add_product", TRUE, "", 0, NoData)
       /\ smtp_log' = {}
       /\ UNCHANGED <<orders, order_items, cart, failed_emails, email_seq,
                      sweeps, sessions, sends>>

\* update_stock, one size field: int(qty), and 0 when qty is no number.
StockQuantity(field) ==
    IF field.numeric THEN field.value ELSE 0

\* update_stock, "Update size quantities": every size the form has a field
\* for.
StockSizes(form) ==
    [s \in DOMAIN form.sizes |-> StockQuantity(form.sizes[s])]

\* POST /admin/update-stock/<product_id>
update_stock(product_id, form) ==
    LET sizes == StockSizes(form)
    IN /\ IF product_id \notin DOMAIN products
          THEN /\ resp' = Answer("update_stock", FALSE, "Product not found",
                                 0, NoData)
               /\ UNCHANGED products
          ELSE IF DOMAIN sizes = {}
          THEN /\ resp' = Answer("update_stock", FALSE,
                                 "No size data provided", 0, NoData)
               /\ UNCHANGED products
          ELSE /\ products' = [products EXCEPT ![product_id] =
                     [@ EXCEPT !.sizes = sizes, !.stock = SumValues(sizes)]]
               /\ resp' = Answer("update_stock", TRUE, "", 0, NoData)
       /\ smtp_log' = {}
       /\ UNCHANGED <<orders, order_items, cart, failed_emails, email_seq,
                      sweeps, sessions, sends>>

\* The size fields of the add and edit forms: one size, or none.
SizeForms ==
    {<<>>} \cup {s :> q : s \in {"M"}, q \in {-1, 0, 2}}

AddRequests ==
    [name : {"", "Dress"}, category_found : BOOLEAN, price : {10},
     sizes : SizeForms]

\* The fields of the stock form: a number, or text that is no number.
StockFields ==
    [numeric : {TRUE}, value : {-1, 0, 2}] \cup [numeric : {FALSE}, value : {0}]

StockForms ==
    [sizes : {<<>>} \cup {"M" :> f : f \in StockFields}]

StockRequests ==
    [absent : {{}},
     items : {<<[product_id |-> 1, size |-> "M", quantity |-> 1, price |-> 10]>>},
     payment_status : {"paid"}, payment_method : {"card"}]

AddProduct ==
    /\ Cardinality(DOMAIN products) < MaxProducts
    /\ \E form \in AddRequests : add_product(form)

StockEdit ==
    \E product_id \in {1, 3}, sizes \in SizeForms :
        edit_product(product_id,
                     [has_price |-> FALSE, price |-> 0, sizes |-> sizes])

UpdateStock ==
    \E product_id \in {1, 3}, form \in StockForms :
        update_stock(product_id, form)

StockCheckout ==
    /\ Len(orders) < MaxOrders
    /\ \E data \in StockRequests : api_checkout(data, "ok", "ok")

StockNext == AddProduct \/ StockEdit \/ UpdateStock \/ StockCheckout

SpecStock == Init /\ [][StockNext]_vars

\* C25: in every state reached by add_product, edit_product, update_stock and
\* checkout, each product's stock is the sum of its sizes and no size holds a
\* count below zero, for every quantity the admin forms accept.
LedgerStaysConsistent ==
    \A p \in DOMAIN products :
        /\ \A s \in DOMAIN products[p].sizes : ~(products[p].sizes[s] < 0)
        /\ calculate_total_stock(products[p]) = products[p].stock

\* ------------------------------------------- orders that are settled later

\* POST /admin/update-order/<order_id>
update_order_status(order_id, new_status) ==
    /\ IF order_id \notin DOMAIN orders
       THEN /\ resp' = Answer("update_order_status", FALSE, "Order not found",
                              0, NoData)
            /\ UNCHANGED orders
       ELSE /\ orders' = [orders EXCEPT ![order_id] =
                 [@ EXCEPT !.delivery_status = new_status,
                           !.payment_status =
                               IF orders[order_id].payment_method
                                     = "Pay on Delivery"
                               THEN "paid" ELSE @]]
            /\ resp' = Answer("update_order_status", TRUE, "", 0, NoData)
    /\ smtp_log' = {}
    /\ UNCHANGED <<products, order_items, cart, failed_emails, email_seq,
                   sweeps, sessions, sends>>

\* POST /admin/update-payment/<order_id>: the status of the form, "paid" when
\* the form has none.
update_payment_status(order_id, status) ==
    /\ IF order_id \notin DOMAIN orders
       THEN /\ resp' = Answer("update_payment_status", FALSE,
                              "Order not found", 0, NoData)
            /\ UNCHANGED orders
       ELSE /\ orders' = [orders EXCEPT ![order_id].payment_status =
                             IF status = "absent" THEN "paid" ELSE status]
            /\ resp' = Answer("update_payment_status", TRUE, "", 0, NoData)
    /\ smtp_log' = {}
    /\ UNCHANGED <<products, order_items, cart, failed_emails, email_seq,
                   sweeps, sessions, sends>>

SettleRequests ==
    [absent : {{}},
     items : {<<[product_id |-> 1, size |-> "M", quantity |-> q, price |-> 10]>> :
                 q \in {1, 2}},
     payment_status : {"paid", "pending"},
     payment_method : {"card", "Pay on Delivery"}]

SettleCheckout ==
    /\ Len(orders) < MaxOrders
    /\ \E data \in SettleRequests : api_checkout(data, "ok", "ok")

UpdateOrderStatus ==
    \E order_id \in 1 .. MaxOrders + 1, new_status \in {"shipped", "delivered"} :
        update_order_status(order_id, new_status)

UpdatePaymentStatus ==
    \E order_id \in 1 .. MaxOrders + 1, status \in {"paid", "failed", "absent"} :
        update_payment_status(order_id, status)

SettleNext == SettleCheckout \/ UpdateOrderStatus \/ UpdatePaymentStatus

SpecSettle == Init /\ [][SettleNext]_vars

\* Units of product p in size s on the order items of the orders that are
\* paid, counted over the first n order items.
RECURSIVE PaidUnits(_, _, _)
PaidUnits(n, p, s) ==
    IF n = 0 THEN 0
    ELSE (IF /\ order_items[n].product_id = p
             /\ order_items[n].size = s
             /\ orders[order_items[n].order_id].payment_status = "paid"
          THEN order_items[n].quantity ELSE 0) + PaidUnits(n - 1, p, s)

\* C30: each order whose payment_status is paid has had the quantities of its
\* order items deducted from sizes and stock and added to sold_count exactly
\* once, whether it was paid at checkout or marked paid later: the units
\* taken from a size since the start, and the units sold, cover the units of
\* all paid orders.
PaidOrdersAreDeducted ==
    \A p \in DOMAIN products : \A s \in DOMAIN products[p].sizes :
        LET paid == PaidUnits(Len(order_items), p, s)
        IN /\ InitProducts[p].sizes[s] - products[p].sizes[s] >= paid
           /\ InitProducts[p].stock - products[p].stock >= paid
           /\ products[p].sold_count >= paid

\* ------------------------------------------- checkouts handled side by side

\* The session's view of the database when api_checkout starts its loop: the
\* rows as last committed, with the new Order flushed. Order ids are given
\* in the order of the commits.
SessionView(data, view) ==
    [products |-> view,
     orders |-> Append(orders, NewOrder(Len(orders) + 1, data)),
     order_items |-> order_items,
     error |-> ""]

\* api_checkout up to its loop's reads: the request is validated, the Order
\* is flushed and db.session.get loads the product rows of the line items as
\* committed at that moment. No lock is taken on the rows. A request that
\* fails a check is answered at once and its session is rolled back.
begin_checkout(c, data) ==
    LET missing == FirstMissing(data, 1)
        work == checkout_items(data, Len(orders) + 1, 1,
                               SessionView(data, products))
    IN /\ sessions[c].pc = "idle"
       /\ IF missing # "" \/ data.items = <<>>
          THEN /\ resp' = Answer("api_checkout", FALSE,
                                 IF missing # ""
                                 THEN "Missing field: " \o missing
                                 ELSE "No items in order", 0, data)
               /\ UNCHANGED sessions
          ELSE IF work.error # ""
          THEN /\ resp' = Answer("api_checkout", FALSE, work.error, 1, data)
               /\ UNCHANGED sessions
          ELSE /\ resp' = NoAnswer
               /\ sessions' = [sessions EXCEPT ![c] =
                      [pc |-> "loaded", data |-> data, view |-> products]]
       /\ smtp_log' = {}
       /\ UNCHANGED <<products, orders, order_items, cart, failed_emails,
                      email_seq, sweeps, sends>>

\* api_checkout from the loop's writes to the end: the values computed from
\* the rows the session loaded are written by db.session.commit (an UPDATE
\* of each product the request changed, with the computed sizes, stock and
\* sold_count), the cart is cleared and both emails are sent.
commit_checkout(c, out1, out2) ==
    LET data == sessions[c].data
        view == sessions[c].view
        order_id == Len(orders) + 1
        work == checkout_items(data, order_id, 1, SessionView(data, view))
    IN /\ sessions[c].pc = "loaded"
       /\ products' = [p \in DOMAIN products |->
                          IF p \in DOMAIN view /\ work.products[p] # view[p]
                          THEN work.products[p] ELSE products[p]]
       /\ orders' = work.orders
       /\ order_items' = work.order_items
       /\ cart' = <<>>
       /\ \E ex1 \in FirstResults(PendingFor(failed_emails, CustomerEmail,
                                      "order_confirmation", order_id)) :
            LET q1 == send_email(Queue, CustomerEmail, "order_confirmation",
                                 order_id, out1, now, ex1)
            IN \E ex2 \in FirstResults(PendingFor(q1.rows, AdminEmail,
                                          "admin_notification", order_id)) :
                 LET q2 == checkout_emails(Queue, order_id, out1, out2,
                                           now, ex1, ex2)
                 IN /\ failed_emails' = q2.rows
                    /\ email_seq' = q2.seq
       /\ smtp_log' = {[row |-> NoRow, recipient |-> CustomerEmail,
                        email_type |-> "order_confirmation",
                        order_id |-> order_id, outcome |-> out1],
                       [row |-> NoRow, recipient |-> AdminEmail,
                        email_type |-> "admin_notification",
                        order_id |-> order_id, outcome |-> out2]}
       /\ resp' = Answer("api_checkout", TRUE, "", 0, data)
       /\ sessions' = [sessions EXCEPT ![c] = NoSession]
       /\ UNCHANGED <<sweeps, sends>>

\* Paid requests of one line item.
ShopperRequests ==
    [absent : {{}},
     items : {<<[product_id |-> 1, size |-> "M", quantity |-> q, price |-> 10]>> :
                 q \in {1, 2}}
             \cup {<<[product_id |-> 2, size |-> "S", quantity |-> 1,
                      price |-> 20]>>},
     payment_status : {"paid"}, payment_method : {"card"}]

InFlight == {c \in Shoppers : sessions[c].pc # "idle"}

BeginCheckout ==
    /\ Len(orders) + Cardinality(InFlight) < MaxOrders
    /\ \E c \in Shoppers, data \in ShopperRequests : begin_checkout(c, data)

CommitCheckout ==
    \E c \in Shoppers, out1 \in SendOutcomes, out2 \in SendOutcomes :
        commit_checkout(c, out1, out2)

ShoppersNext == BeginCheckout \/ CommitCheckout

SpecShoppers == Init /\ [][ShoppersNext]_vars

\* C24: two paid checkouts that run at the same time on one product and size
\* have the effect of one of their serial orders: the committed paid order
\* items of the size add up to no more than the stock there was, and the
\* size's count and sold_count reflect every committed quantity.
ConcurrentCheckoutsSerialize ==
    \A p \in DOMAIN products : \A s \in DOMAIN products[p].sizes :
        LET sold == PaidUnits(Len(order_items), p, s)
        IN /\ sold <= InitProducts[p].sizes[s]
           /\ products[p].sizes[s] = InitProducts[p].sizes[s] - sold
           /\ products[p].sold_count = sold

\* ------------------------------------------- transport calls, row by row

\* The delivery confirmation is sent once and the transport refuses it: the
\* call that creates row email_seq' is the first one made for that row's
\* message.
TalliedSendFails ==
    /\ email_seq = 0
    /\ send_email_request(CustomerEmail, "delivery_confirmation", 1, "auth")
    /\ sends' = sends @@ (email_seq' :> 1)

\* The send of a sweep: one more transport call for the row at the head of
\* the caller's list, none when the row is gone.
TalliedSweepSend(w, outcome) ==
    LET id == Head(sweeps[w].todo)
    IN /\ sweep_send(w, outcome)
       /\ sends' = IF RowsWithId(failed_emails, id) = {} THEN sends
                   ELSE [sends EXCEPT ![id] = @ + 1]

\* The scheduled job and the admin's "retry now" both call
\* retry_failed_emails; a send of the sweeps times out or is delivered.
TalliedStep ==
    \E w \in Workers :
        \/ SweepQuery(w)
        \/ SweepMark(w)
        \/ \E outcome \in {"ok", "timeout"} : TalliedSweepSend(w, outcome)
        \/ SweepResult(w)

TalliedNext == TalliedSendFails \/ TalliedStep \/ Tick

SpecTallied == InitQueue /\ [][TalliedNext]_vars

\* C26: for every queue entry, the transport send attempts made for its
\* message (the failed send that created the entry and every send of a
\* sweep) never number more than the entry's max_attempts.
SendsWithinMaxAttempts ==
    \A e \in failed_emails : sends[e.id] <= e.max_attempts

====
